---------------------------- MODULE Spec2Model ----------------------------
(***************************************************************************)
(* A model of the rating-and-simulation engine of nba_playoff_odds:        *)
(*   elo.py        expected_home_win_prob, update_elo                      *)
(*   bracket.py    build_playoff_field, _simulate_series,                  *)
(*                 _series_with_home_court, simulate_playoffs              *)
(*   simulation.py run_monte_carlo                                         *)
(*                                                                         *)
(* Numbers.  Ratings, the home-court advantage and rating deltas are       *)
(* fixed-point integers in thousandths of a rating point (1500.0 is        *)
(* 1500000); probabilities are integers in thousandths (permille).  The    *)
(* arithmetic of the model is exact: the rounding of IEEE doubles is not   *)
(* modelled.  An odds value count / n is the fraction in lowest terms.     *)
(*                                                                         *)
(* Text.  A team name and a raw conference label are sequences of          *)
(* character codes (ASCII), so that formatting, strip() and title() are    *)
(* computed and not assumed.                                               *)
(*                                                                         *)
(* random.Random is the standard library's generator, not code of the      *)
(* repository; it is modelled as a deterministic generator whose state is  *)
(* a number below RngModulus (a full-period linear congruential            *)
(* generator).  What the model keeps of it is what the code relies on:     *)
(* the stream is a function of the seed alone.                             *)
(***************************************************************************)
EXTENDS Integers, Sequences, FiniteSets, TLC

(***************************************************************************)
(* Bounds of the model.                                                    *)
(***************************************************************************)
\* n_simulations of a call ranges over -1 .. MaxSims
MaxSims == 2
\* the top-level seed ranges over 0 .. MaxSeed
MaxSeed == 2
\* the caller's baseline rating map is BaseRatings(i) for i in 1 .. NumBases
NumBases == 2
\* a lone series is played by the field's seeds s and 9 - s, s in 1 .. NumPairs
NumPairs == 2
\* a conference of the standings holds 8 - Slack .. 8 + Slack rows
Slack == 2

(***************************************************************************)
(* Generic helpers.                                                        *)
(***************************************************************************)
Max(a, b) == IF a >= b THEN a ELSE b

Min(a, b) == IF a <= b THEN a ELSE b

RECURSIVE GCD(_, _)
GCD(a, b) == IF b = 0 THEN a ELSE GCD(b, a % b)

RECURSIVE SumSeq(_)
SumSeq(s) == IF s = <<>> THEN 0 ELSE Head(s) + SumSeq(Tail(s))

RECURSIVE SumSet(_, _)
\* the sum of f[x] over the finite set S
SumSet(S, f) ==
    IF S = {} THEN 0
    ELSE LET x == CHOOSE y \in S : TRUE IN f[x] + SumSet(S \ {x}, f)

Range(s) == {s[i] : i \in DOMAIN s}

(***************************************************************************)
(* elo.py                                                                  *)
(***************************************************************************)
\* 1000 / (1 + 10^(-d/400)) rounded, for d = -800, -775, .., 800 rating points
LogisticTable ==
    << 10, 11, 13, 15, 17, 20, 23, 27, 31, 35, 40, 46, 53, 61, 70, 80, 91,
       104, 118, 133, 151, 170, 192, 215, 240, 267, 297, 327, 360, 394, 429,
       464, 500, 536, 571, 606, 640, 673, 703, 733, 760, 785, 808, 830, 849,
       867, 882, 896, 909, 920, 930, 939, 947, 954, 960, 965, 969, 973, 977,
       980, 983, 985, 987, 989, 990 >>

\* elo.py:4-7.  adjusted_home = home_elo + home_court_adv;
\* 1 / (1 + 10 ** ((away_elo - adjusted_home) / 400)), in permille, by linear
\* interpolation in LogisticTable (the curve is cut off at +-800 points).
expected_home_win_prob(home_elo, away_elo, home_court_adv) ==
    LET adjusted_home == home_elo + home_court_adv
        d    == Max(-800000, Min(800000, adjusted_home - away_elo)) + 800000
        i    == d \div 25000
        rem  == d % 25000
    IN  IF i >= 64 THEN LogisticTable[65]
        ELSE LogisticTable[i + 1]
               + ((LogisticTable[i + 2] - LogisticTable[i + 1]) * rem) \div 25000

\* mutant of update_elo: the away side gains the delta too
update_elo_both_gain(home_elo, away_elo, home_won, k_factor, home_court_adv) ==
    LET exp_home    == expected_home_win_prob(home_elo, away_elo, home_court_adv)
        actual_home == IF home_won THEN 1000 ELSE 0
        delta       == k_factor * (actual_home - exp_home)
    IN  << home_elo + delta, away_elo + delta >>

\* elo.py:10-21.  delta = k_factor * (actual_home - exp_home), in thousandths
\* of a point: k_factor points times a permille.
update_elo(home_elo, away_elo, home_won, k_factor, home_court_adv) ==
    LET exp_home    == expected_home_win_prob(home_elo, away_elo, home_court_adv)
        actual_home == IF home_won THEN 1000 ELSE 0
        delta       == k_factor * (actual_home - exp_home)
    IN  << home_elo + delta, away_elo - delta >>

(***************************************************************************)
(* random.Random (standard library), as a deterministic generator.         *)
(***************************************************************************)
RngModulus == 65537

\* random.Random(x): the state a seed leads to
RngSeed(x) == (x * 31 + 7) % RngModulus

\* one step of the generator; the new state is also the number it puts out
RngNext(s) == (s * 75 + 74) % RngModulus

\* rng.randint(lo, hi): a number of lo..hi read off the generator's output
RngRandint(s, lo, hi) == lo + (RngNext(s) % (hi - lo + 1))

\* rng.random() < p for a probability p in permille, the draw being
\* RngNext(s) / RngModulus in [0, 1)
DrawBelow(u, p) == u * 1000 < p * RngModulus

(***************************************************************************)
(* models.py: SeededTeam, and the rating map (a dict: team id -> rating).  *)
(***************************************************************************)
Conferences == << "East", "West" >>

NoTeam == [team_id |-> 0, team_name |-> <<>>, conference |-> "", seed |-> 0]

\* mutant of RatingGet: ratings.get(team_id, 0.0)
RatingGetZero(ratings, team_id) ==
    IF team_id \in DOMAIN ratings THEN ratings[team_id] ELSE 0

\* ratings.get(team_id, 1500.0)
RatingGet(ratings, team_id) ==
    IF team_id \in DOMAIN ratings THEN ratings[team_id] ELSE 1500000

\* mutant of RatingPut2: the away team's new rating is not stored
RatingPutHome(ratings, home_id, new_home, away_id, new_away) ==
    [t \in DOMAIN ratings \cup {home_id, away_id} |->
        IF t = home_id THEN new_home
        ELSE IF t \in DOMAIN ratings THEN ratings[t]
        ELSE 1500000]

\* ratings[home] , ratings[away] = new_home, new_away  (in this order)
RatingPut2(ratings, home_id, new_home, away_id, new_away) ==
    [t \in DOMAIN ratings \cup {home_id, away_id} |->
        IF t = away_id THEN new_away
        ELSE IF t = home_id THEN new_home
        ELSE ratings[t]]

(***************************************************************************)
(* The inputs the model draws.                                             *)
(***************************************************************************)
\* "East" and "West" as character codes
ConfChars(conference) ==
    IF conference = "East" THEN << 69, 97, 115, 116 >> ELSE << 87, 101, 115, 116 >>

\* tests/test_bracket.py:7-17: team 100+seed "East <seed>", 200+seed "West <seed>"
TestTeam(conference, seed) ==
    [team_id   |-> (IF conference = "East" THEN 100 ELSE 200) + seed,
     team_name |-> ConfChars(conference) \o << 32, 48 + seed >>,
     conference |-> conference,
     seed      |-> seed]

TestField ==
    [East |-> [s \in 1..8 |-> TestTeam("East", s)],
     West |-> [s \in 1..8 |-> TestTeam("West", s)]]

FieldTeams(field) == Range(field["East"]) \cup Range(field["West"])

FieldIds(field) == {t.team_id : t \in FieldTeams(field)}

\* The caller's baseline rating maps.  An odd i rates every team of the test
\* field (better seeds higher, as tests/test_bracket.py:20-25 spreads them by
\* at most 75 points); an even i rates only the four best seeds of each
\* conference, the other teams having no entry.
BaseRatings(i) ==
    LET rated == IF i % 2 = 1 THEN FieldTeams(TestField)
                 ELSE {t \in FieldTeams(TestField) : t.seed <= 4}
    IN  [id \in {t.team_id : t \in rated} |->
            LET t == CHOOSE x \in rated : x.team_id = id
            IN  1500000 + (9 - 2 * t.seed) * 4000 * i
                  + (IF t.conference = "West" THEN 3000 ELSE 0)]

\* (k_factor, home_court_adv): config.py:38-39 defaults 20 and 65, and a second pair
ParamChoices == { << 20, 65000 >>, << 32, 0 >> }

\* tests/test_bracket.py:32-47 calls run_monte_carlo twice on the same objects
NumCalls == 2

(***************************************************************************)
(* The state.                                                              *)
(***************************************************************************)
VARIABLES
    \* the caller's objects and arguments (simulation.py:10-16)
    playoff_field,     \* conference -> sequence of SeededTeam
    base_ratings,      \* the caller's dict: team id -> rating
    n_simulations,     \* call number -> the n_simulations of that call
    k_factor,
    home_court_adv,
    seed,
    \* run_monte_carlo
    call,              \* the number of calls made so far
    pc,                \* "idle", "loop", "series", "returned", "raised"
    outs,              \* what each finished call returned or raised
    champ_counts,      \* Counter: sequence of [key, count], in insertion order
    conference_counts, \* conference -> Counter
    finals_counts,     \* Counter keyed by the matchup text
    parent_rng,        \* state of parent_rng
    trial,             \* completed iterations of the loop at line 36
    \* one trial: simulate_playoffs
    sim_rng,           \* state of sim_rng
    sim_ratings,       \* the dict made at line 38
    ratings_obj,       \* the object `ratings` names in bracket.py: "sim" or "base"
    series_no,         \* 1..7 East (qf1..qf4, sf1, sf2, final), 8..14 West, 15 championship
    winners,           \* series number -> the team that series returned
    \* one series: _simulate_series
    high_seed,
    low_seed,
    high_wins,
    low_wins,
    slot,              \* entries of schedule_high_home consumed so far
    series_ret,        \* the value the last finished series returned
    \* history, for stating properties
    field0,            \* playoff_field as the caller built it
    base0,             \* base_ratings as the caller built it
    played,            \* ids of the teams that played a game in the current trial
    draws,             \* random numbers drawn since the current call began
    last_game,         \* the last game simulated
    latest,            \* team id -> the rating its latest game of the trial produced
    series_start,      \* the ratings of the two roles when the current series began
    first_trial,       \* matchup text -> the trial of the call in which it first occurred
    trial_log,         \* call number -> what simulate_playoffs returned, trial by trial
    losers,            \* ids of the teams that lost a series of the current trial, in order
    \* build_playoff_field
    standings,         \* the list of TeamStanding it is called on
    build_pc,          \* "input", "returned", "raised"
    built_field,       \* the field it returned
    \* BallDontLieClient._request
    max_retries,                  \* self.max_retries
    min_request_interval_seconds, \* self.min_request_interval_seconds
    last_request_ts,              \* self._last_request_ts, in seconds
    now,                          \* time.time(), in seconds
    attempt,                      \* the loop variable of line 45
    req_pc,                       \* "idle", "loop", "returned", "raised"
    req_raised,                   \* the exception the call raised, "" when none
    req_log                       \* history: what each attempt made met with

mc_vars ==
    << playoff_field, base_ratings, n_simulations, k_factor, home_court_adv, seed,
       call, pc, outs, champ_counts, conference_counts, finals_counts, parent_rng,
       trial, sim_rng, sim_ratings, ratings_obj, series_no, winners,
       high_seed, low_seed, high_wins, low_wins, slot, series_ret,
       field0, base0, played, draws, last_game,
       latest, series_start, first_trial, trial_log, losers >>

seeder_vars == << standings, build_pc, built_field >>

request_vars ==
    << max_retries, min_request_interval_seconds, last_request_ts, now, attempt,
       req_pc, req_raised, req_log >>

vars == << mc_vars, seeder_vars, request_vars >>

NoGame ==
    [n |-> 0, home |-> NoTeam, away |-> NoTeam, high |-> NoTeam,
     home_elo |-> 0, away_elo |-> 0, home_prob |-> 0, home_won |-> FALSE,
     new_home |-> 0, new_away |-> 0, high_wins |-> 0, low_wins |-> 0,
     low |-> NoTeam, series |-> 0, home_had |-> FALSE, away_had |-> FALSE,
     home_prev |-> 0, away_prev |-> 0]

\* the history before any call
NoHistory ==
    /\ latest = << >>
    /\ series_start = [high |-> 0, low |-> 0]
    /\ first_trial = << >>
    /\ trial_log = [i \in 1..NumCalls |-> << >>]
    /\ losers = << >>

\* the dict that `ratings` names inside bracket.py
Ratings == IF ratings_obj = "base" THEN base_ratings ELSE sim_ratings

(***************************************************************************)
(* bracket.py: _simulate_series                                            *)
(***************************************************************************)
\* mutant of schedule_high_home: the 2-3-2 pattern
schedule_2_3_2 == << TRUE, TRUE, FALSE, FALSE, FALSE, TRUE, TRUE >>

\* bracket.py:44
schedule_high_home == << TRUE, TRUE, FALSE, FALSE, TRUE, FALSE, TRUE >>

\* mutants of SeriesOver: no break at all; a break for the high seed only
SeriesOverNoBreak == slot = Len(schedule_high_home)

SeriesOverHighOnly == slot = Len(schedule_high_home) \/ high_wins = 4

\* bracket.py:46-48: the for loop is exhausted, or the break is taken
SeriesOver == slot = Len(schedule_high_home) \/ high_wins = 4 \/ low_wins = 4

\* mutant of SeriesWinner: the comparison the wrong way round
SeriesWinnerSwapped == IF high_wins > low_wins THEN low_seed ELSE high_seed

\* the team with fewer wins when a series ends
SeriesLoser == IF high_wins > low_wins THEN low_seed ELSE high_seed

\* bracket.py:78
SeriesWinner == IF high_wins > low_wins THEN high_seed ELSE low_seed

\* bracket.py:46-76: one iteration of the loop that does not break, the
\* draw of rng.random() being u / RngModulus
Game(u) ==
    LET high_is_home == schedule_high_home[slot + 1]
        home      == IF high_is_home THEN high_seed ELSE low_seed
        away      == IF high_is_home THEN low_seed ELSE high_seed
        home_elo  == RatingGet(Ratings, home.team_id)
        away_elo  == RatingGet(Ratings, away.team_id)
        home_prob == expected_home_win_prob(home_elo, away_elo, home_court_adv)
        home_won  == DrawBelow(u, home_prob)
        new       == update_elo(home_elo, away_elo, home_won, k_factor, home_court_adv)
        written   == RatingPut2(Ratings, home.team_id, new[1], away.team_id, new[2])
        high_team_won ==
            \/ (home.team_id = high_seed.team_id /\ home_won)
            \/ (away.team_id = high_seed.team_id /\ ~home_won)
    IN  /\ pc = "series"
        /\ ~SeriesOver
        /\ IF ratings_obj = "base"
           THEN base_ratings' = written /\ sim_ratings' = sim_ratings
           ELSE sim_ratings' = written /\ base_ratings' = base_ratings
        /\ high_wins' = IF high_team_won THEN high_wins + 1 ELSE high_wins
        /\ low_wins' = IF high_team_won THEN low_wins ELSE low_wins + 1
        /\ slot' = slot + 1
        /\ played' = played \cup {home.team_id, away.team_id}
        /\ draws' = draws + 1
        /\ latest' = [id \in DOMAIN latest \cup {home.team_id, away.team_id} |->
                        IF id = home.team_id THEN new[1]
                        ELSE IF id = away.team_id THEN new[2]
                        ELSE latest[id]]
        /\ last_game' =
             [n |-> slot + 1, home |-> home, away |-> away, high |-> high_seed,
              home_elo |-> home_elo, away_elo |-> away_elo,
              home_prob |-> home_prob, home_won |-> home_won,
              new_home |-> new[1], new_away |-> new[2],
              high_wins |-> high_wins, low_wins |-> low_wins,
              low |-> low_seed, series |-> series_no,
              home_had |-> home.team_id \in DOMAIN Ratings,
              away_had |-> away.team_id \in DOMAIN Ratings,
              home_prev |-> IF home.team_id \in DOMAIN latest
                            THEN latest[home.team_id]
                            ELSE RatingGet(base0, home.team_id),
              away_prev |-> IF away.team_id \in DOMAIN latest
                            THEN latest[away.team_id]
                            ELSE RatingGet(base0, away.team_id)]

(***************************************************************************)
(* bracket.py: _series_with_home_court and simulate_playoffs               *)
(***************************************************************************)
\* bracket.py:114: by_seed = {t.seed: t for t in teams}; a later team of the
\* same seed replaces an earlier one
BySeed(teams, s) ==
    LET at == {i \in DOMAIN teams : teams[i].seed = s}
    IN  teams[CHOOSE i \in at : \A j \in at : j <= i]

\* mutant of series_with_home_court: the roles by rating, whatever the seeds
series_with_home_court_by_rating(team_a, team_b, ratings) ==
    IF RatingGet(ratings, team_a.team_id) >= RatingGet(ratings, team_b.team_id)
    THEN << team_a, team_b >>
    ELSE << team_b, team_a >>

\* bracket.py:81-100: << the team given the high-seed role, the other >>
series_with_home_court(team_a, team_b, ratings) ==
    IF team_a.seed < team_b.seed THEN << team_a, team_b >>
    ELSE IF team_b.seed < team_a.seed THEN << team_b, team_a >>
    ELSE IF RatingGet(ratings, team_a.team_id) >= RatingGet(ratings, team_b.team_id)
         THEN << team_a, team_b >>
         ELSE << team_b, team_a >>

\* mutant of ChampionshipRoles: the roles as _series_with_home_court gives them
ChampionshipRolesBySeed(east, west, ratings) ==
    series_with_home_court(east, west, ratings)

\* bracket.py:128-133: the championship's roles, by current rating
ChampionshipRoles(east, west, ratings) ==
    IF RatingGet(ratings, east.team_id) >= RatingGet(ratings, west.team_id)
    THEN << east, west >>
    ELSE << west, east >>

\* mutant of SeriesRoles: the quarterfinals in the order 1v8, 2v7, 3v6, 4v5
SeriesRolesInOrder(no, w, ratings, field) ==
    LET first == IF no <= 7 THEN 0 ELSE 7
        teams == field[Conferences[IF no <= 7 THEN 1 ELSE 2]]
        round == no - first
    IN  IF no = 15 THEN ChampionshipRoles(w[7], w[14], ratings)
        ELSE IF round = 1 THEN << BySeed(teams, 1), BySeed(teams, 8) >>
        ELSE IF round = 2 THEN << BySeed(teams, 2), BySeed(teams, 7) >>
        ELSE IF round = 3 THEN << BySeed(teams, 3), BySeed(teams, 6) >>
        ELSE IF round = 4 THEN << BySeed(teams, 4), BySeed(teams, 5) >>
        ELSE IF round = 5
             THEN series_with_home_court(w[first + 1], w[first + 2], ratings)
        ELSE IF round = 6
             THEN series_with_home_court(w[first + 3], w[first + 4], ratings)
        ELSE series_with_home_court(w[first + 5], w[first + 6], ratings)

\* bracket.py:112-133: << high_seed, low_seed >> of series number no, given the
\* winners w of the series before it and the ratings as they stand
SeriesRoles(no, w, ratings, field) ==
    LET first == IF no <= 7 THEN 0 ELSE 7
        teams == field[Conferences[IF no <= 7 THEN 1 ELSE 2]]
        round == no - first
    IN  IF no = 15 THEN ChampionshipRoles(w[7], w[14], ratings)
        ELSE IF round = 1 THEN << BySeed(teams, 1), BySeed(teams, 8) >>
        ELSE IF round = 2 THEN << BySeed(teams, 4), BySeed(teams, 5) >>
        ELSE IF round = 3 THEN << BySeed(teams, 2), BySeed(teams, 7) >>
        ELSE IF round = 4 THEN << BySeed(teams, 3), BySeed(teams, 6) >>
        ELSE IF round = 5
             THEN series_with_home_court(w[first + 1], w[first + 2], ratings)
        ELSE IF round = 6
             THEN series_with_home_court(w[first + 3], w[first + 4], ratings)
        ELSE series_with_home_court(w[first + 5], w[first + 6], ratings)

(***************************************************************************)
(* simulation.py: run_monte_carlo                                          *)
(***************************************************************************)
\* collections.Counter: counter[key] += 1 (a new key goes last)
CounterInc(counter, key) ==
    IF \E i \in DOMAIN counter : counter[i].key = key
    THEN [i \in DOMAIN counter |->
            IF counter[i].key = key
            THEN [key |-> key, count |-> counter[i].count + 1]
            ELSE counter[i]]
    ELSE Append(counter, [key |-> key, count |-> 1])

CounterTotal(counter) == SumSeq([i \in DOMAIN counter |-> counter[i].count])

CounterKeys(counter) == {counter[i].key : i \in DOMAIN counter}

RECURSIVE InsertByCount(_, _)
\* x put into s, which is in non-increasing count order, behind every entry
\* whose count is at least x's
InsertByCount(s, x) ==
    IF s = <<>> THEN << x >>
    ELSE IF Head(s).count >= x.count THEN << Head(s) >> \o InsertByCount(Tail(s), x)
    ELSE << x >> \o s

RECURSIVE SortedByCount(_)
\* sorted(counter.items(), key=count, reverse=True): stable
SortedByCount(counter) ==
    IF counter = <<>> THEN <<>>
    ELSE InsertByCount(SortedByCount(SubSeq(counter, 1, Len(counter) - 1)),
                       counter[Len(counter)])

\* Counter.most_common(n)
MostCommon(counter, n) ==
    SubSeq(SortedByCount(counter), 1, Min(n, Len(counter)))

\* simulation.py:63
MostCommonLimit == 10

\* count / n_simulations, as the fraction in lowest terms
Odds(count, n) == << count \div GCD(count, n), n \div GCD(count, n) >>

\* simulation.py:25-29: team_lookup[team_id], East listed before West, a
\* later team of the same id replacing an earlier one
TeamLookup(field, team_id) ==
    LET all == field["East"] \o field["West"]
        at  == {i \in DOMAIN all : all[i].team_id = team_id}
    IN  all[CHOOSE i \in at : \A j \in at : j <= i].team_name

\* simulation.py:50: f"{east_champ.team_name} vs {west_champ.team_name}"
MatchupText(east_name, west_name) == east_name \o << 32, 118, 115, 32 >> \o west_name

\* simulation.py:52-55 and 59-61
OddsOf(counter, field, n) ==
    [i \in DOMAIN counter |->
        [team_id   |-> counter[i].key,
         team_name |-> TeamLookup(field, counter[i].key),
         odds      |-> Odds(counter[i].count, n)]]

\* mutant of FinalsTop10: the first 10 items of the counter as they stand
FinalsFirst10(counter, n) ==
    LET top == SubSeq(counter, 1, Min(MostCommonLimit, Len(counter)))
    IN  [i \in DOMAIN top |-> [matchup |-> top[i].key, odds |-> Odds(top[i].count, n)]]

\* simulation.py:63
FinalsTop10(counter, n) ==
    LET top == MostCommon(counter, MostCommonLimit)
    IN  [i \in DOMAIN top |-> [matchup |-> top[i].key, odds |-> Odds(top[i].count, n)]]

\* simulation.py:22
InvalidSimulations_neg(n) == n < 0

InvalidSimulations(n) == n <= 0

\* simulation.py:31: champ_counts = Counter(), made anew by every call
StaleChampCounts == champ_counts

NewChampCounts == << >>

\* simulation.py:38: sim_ratings = dict(base_ratings), a new object per trial
SimRatingsAliased == [map |-> base_ratings, obj |-> "base"]

SimRatingsHoisted ==
    [map |-> IF trial = 0 THEN base_ratings ELSE sim_ratings, obj |-> "sim"]

NewSimRatings == [map |-> base_ratings, obj |-> "sim"]

\* mutant of TrialTally: the East counter is keyed by the overall champion
TrialTallyByChampion(champion, east_champ, west_champ) ==
    [champ_counts |-> CounterInc(champ_counts, champion.team_id),
     conference_counts |->
        [East |-> CounterInc(conference_counts["East"], champion.team_id),
         West |-> CounterInc(conference_counts["West"], west_champ.team_id)],
     finals_counts |->
        CounterInc(finals_counts,
                   MatchupText(east_champ.team_name, west_champ.team_name))]

\* mutant of TrialTally: both conference champions are counted as champions
TrialTallyBothChampions(champion, east_champ, west_champ) ==
    [champ_counts |->
        CounterInc(CounterInc(champ_counts, east_champ.team_id), west_champ.team_id),
     conference_counts |->
        [East |-> CounterInc(conference_counts["East"], east_champ.team_id),
         West |-> CounterInc(conference_counts["West"], west_champ.team_id)],
     finals_counts |->
        CounterInc(finals_counts,
                   MatchupText(east_champ.team_name, west_champ.team_name))]

\* simulation.py:47-50: the counters after one trial's outcome is tallied
TrialTally(champion, east_champ, west_champ) ==
    [champ_counts |-> CounterInc(champ_counts, champion.team_id),
     conference_counts |->
        [East |-> CounterInc(conference_counts["East"], east_champ.team_id),
         West |-> CounterInc(conference_counts["West"], west_champ.team_id)],
     finals_counts |->
        CounterInc(finals_counts,
                   MatchupText(east_champ.team_name, west_champ.team_name))]

\* a mutant of ParentRng: the parent generator's seed moves with the count
ParentRngByCount(top_seed, n) == RngSeed(top_seed + n)

\* simulation.py:35: parent_rng = random.Random(seed)
ParentRng(top_seed, n) == RngSeed(top_seed)

\* BallDontLieClient._request is not part of this run
RequestIdle ==
    /\ max_retries = 1
    /\ min_request_interval_seconds = 0
    /\ last_request_ts = 0
    /\ now = 0
    /\ attempt = 0
    /\ req_pc = "idle"
    /\ req_raised = ""
    /\ req_log = << >>

\* build_playoff_field is not part of this run
SeederIdle ==
    /\ standings = << >>
    /\ build_pc = "idle"
    /\ built_field = [East |-> << >>, West |-> << >>]

series_unchanged ==
    UNCHANGED << sim_rng, sim_ratings, ratings_obj, series_no, winners,
                 high_seed, low_seed, high_wins, low_wins, slot, series_ret,
                 played, last_game, latest, series_start, losers >>

args_unchanged ==
    UNCHANGED << playoff_field, n_simulations, k_factor, home_court_adv, seed,
                 field0, base0, standings, build_pc, built_field, request_vars >>

\* simulation.py:22-23: the call raises ValueError
RunMonteCarloRaise ==
    /\ pc \in {"idle", "returned", "raised"}
    /\ call < NumCalls
    /\ InvalidSimulations(n_simulations[call + 1])
    /\ call' = call + 1
    /\ pc' = "raised"
    /\ outs' = Append(outs, [status |-> "ValueError", championship_odds |-> <<>>,
                             conference_odds |-> [East |-> <<>>, West |-> <<>>],
                             finals_top_10 |-> <<>>])
    /\ draws' = 0
    /\ UNCHANGED << base_ratings, champ_counts, conference_counts, finals_counts,
                    parent_rng, trial, first_trial, trial_log >>
    /\ series_unchanged
    /\ args_unchanged

\* simulation.py:22-35: the call gets past the check and reaches the loop
RunMonteCarloEnter ==
    /\ pc \in {"idle", "returned", "raised"}
    /\ call < NumCalls
    /\ ~InvalidSimulations(n_simulations[call + 1])
    /\ call' = call + 1
    /\ pc' = "loop"
    /\ champ_counts' = NewChampCounts
    /\ conference_counts' = [East |-> << >>, West |-> << >>]
    /\ finals_counts' = << >>
    /\ parent_rng' = ParentRng(seed, n_simulations[call + 1])
    /\ trial' = 0
    /\ draws' = 0
    /\ first_trial' = << >>
    /\ UNCHANGED << base_ratings, outs, trial_log >>
    /\ series_unchanged
    /\ args_unchanged

\* the ratings the two roles of a series hold as the series begins
StartRatings(roles, ratings) ==
    [high |-> RatingGet(ratings, roles[1].team_id),
     low  |-> RatingGet(ratings, roles[2].team_id)]

\* simulation.py:36-39 and bracket.py:110-116: an iteration of the loop begins
\* and simulate_playoffs reaches its first series
StartTrial ==
    /\ pc = "loop"
    /\ trial < n_simulations[call]
    /\ sim_rng' = RngSeed(RngRandint(parent_rng, 0, 1000000000))
    /\ parent_rng' = RngNext(parent_rng)
    /\ sim_ratings' = NewSimRatings.map
    /\ ratings_obj' = NewSimRatings.obj
    /\ series_no' = 1
    /\ winners' = [i \in 1..15 |-> NoTeam]
    /\ LET roles == SeriesRoles(1, winners', NewSimRatings.map, playoff_field)
       IN  /\ high_seed' = roles[1]
           /\ low_seed' = roles[2]
           /\ series_start' = StartRatings(roles, NewSimRatings.map)
    /\ high_wins' = 0
    /\ low_wins' = 0
    /\ slot' = 0
    /\ played' = {}
    /\ latest' = << >>
    /\ losers' = << >>
    /\ draws' = draws + 1
    /\ pc' = "series"
    /\ UNCHANGED << base_ratings, call, outs, champ_counts, conference_counts,
                    finals_counts, trial, series_ret, last_game,
                    first_trial, trial_log >>
    /\ args_unchanged

\* bracket.py:46-76 with the draw taken from sim_rng
PlayGame ==
    /\ Game(RngNext(sim_rng))
    /\ sim_rng' = RngNext(sim_rng)
    /\ UNCHANGED << call, pc, outs, champ_counts, conference_counts, finals_counts,
                    parent_rng, trial, ratings_obj, series_no, winners,
                    high_seed, low_seed, series_ret, series_start,
                    first_trial, trial_log, losers >>
    /\ args_unchanged

\* bracket.py:78 and 116-133: a series other than the championship returns and
\* simulate_playoffs enters the next one
EndSeries ==
    /\ pc = "series"
    /\ SeriesOver
    /\ series_no < 15
    /\ series_ret' = SeriesWinner
    /\ winners' = [winners EXCEPT ![series_no] = SeriesWinner]
    /\ series_no' = series_no + 1
    /\ losers' = Append(losers, SeriesLoser.team_id)
    /\ LET roles == SeriesRoles(series_no + 1, winners', Ratings, playoff_field)
       IN  /\ high_seed' = roles[1]
           /\ low_seed' = roles[2]
           /\ series_start' = StartRatings(roles, Ratings)
    /\ high_wins' = 0
    /\ low_wins' = 0
    /\ slot' = 0
    /\ UNCHANGED << base_ratings, call, pc, outs, champ_counts, conference_counts,
                    finals_counts, parent_rng, trial, sim_rng, sim_ratings,
                    ratings_obj, played, draws, last_game, latest,
                    first_trial, trial_log >>
    /\ args_unchanged

\* the record of the trial in which each matchup text first occurred
FirstSeen(seen, key, t) ==
    [k \in DOMAIN seen \cup {key} |-> IF k \in DOMAIN seen THEN seen[k] ELSE t]

\* bracket.py:78, 134 and simulation.py:47-50: the championship returns,
\* simulate_playoffs returns (champion, east, west) and the loop body tallies it
FinishTrial ==
    /\ pc = "series"
    /\ SeriesOver
    /\ series_no = 15
    /\ series_ret' = SeriesWinner
    /\ winners' = [winners EXCEPT ![15] = SeriesWinner]
    /\ LET tally == TrialTally(SeriesWinner, winners[7], winners[14])
       IN  /\ champ_counts' = tally.champ_counts
           /\ conference_counts' = tally.conference_counts
           /\ finals_counts' = tally.finals_counts
    /\ trial' = trial + 1
    /\ losers' = Append(losers, SeriesLoser.team_id)
    /\ first_trial' = FirstSeen(first_trial,
                                MatchupText(winners[7].team_name, winners[14].team_name),
                                trial + 1)
    /\ trial_log' = [trial_log EXCEPT ![call] =
                        Append(@, [champion |-> SeriesWinner.team_id,
                                   east_champ |-> winners[7].team_id,
                                   west_champ |-> winners[14].team_id])]
    /\ pc' = "loop"
    /\ UNCHANGED << base_ratings, call, outs, parent_rng, sim_rng, sim_ratings,
                    ratings_obj, series_no, high_seed, low_seed, high_wins,
                    low_wins, slot, played, draws, last_game, latest, series_start >>
    /\ args_unchanged

\* simulation.py:52-64: the loop is over and the three outputs are returned
Return ==
    /\ pc = "loop"
    /\ trial >= n_simulations[call]
    /\ outs' = Append(outs,
          [status |-> "ok",
           championship_odds |-> OddsOf(champ_counts, playoff_field, n_simulations[call]),
           conference_odds |->
              [East |-> OddsOf(conference_counts["East"], playoff_field, n_simulations[call]),
               West |-> OddsOf(conference_counts["West"], playoff_field, n_simulations[call])],
           finals_top_10 |-> FinalsTop10(finals_counts, n_simulations[call])])
    /\ pc' = "returned"
    /\ UNCHANGED << base_ratings, call, champ_counts, conference_counts,
                    finals_counts, parent_rng, trial, draws, first_trial, trial_log >>
    /\ series_unchanged
    /\ args_unchanged

(***************************************************************************)
(* The caller of tests/test_bracket.py: a field, a baseline, the           *)
(* parameters and a seed, and then NumCalls calls on those same objects.   *)
(***************************************************************************)
Init ==
    /\ SeederIdle
    /\ RequestIdle
    /\ playoff_field = TestField
    /\ field0 = TestField
    /\ \E i \in 1..NumBases : base_ratings = BaseRatings(i) /\ base0 = BaseRatings(i)
    /\ n_simulations \in [1..NumCalls -> (-1)..MaxSims]
    /\ \E p \in ParamChoices : k_factor = p[1] /\ home_court_adv = p[2]
    /\ seed \in 0..MaxSeed
    /\ call = 0
    /\ pc = "idle"
    /\ outs = << >>
    /\ champ_counts = << >>
    /\ conference_counts = [East |-> << >>, West |-> << >>]
    /\ finals_counts = << >>
    /\ parent_rng = 0
    /\ trial = 0
    /\ sim_rng = 0
    /\ sim_ratings = << >>
    /\ ratings_obj = "sim"
    /\ series_no = 0
    /\ winners = [i \in 1..15 |-> NoTeam]
    /\ high_seed = NoTeam
    /\ low_seed = NoTeam
    /\ high_wins = 0
    /\ low_wins = 0
    /\ slot = 0
    /\ series_ret = NoTeam
    /\ played = {}
    /\ draws = 0
    /\ last_game = NoGame
    /\ NoHistory

Next ==
    \/ RunMonteCarloRaise
    \/ RunMonteCarloEnter
    \/ StartTrial
    \/ PlayGame
    \/ EndSeries
    \/ FinishTrial
    \/ Return

Spec == Init /\ [][Next]_vars

(***************************************************************************)
(* Properties of run_monte_carlo, checked under Spec.                      *)
(***************************************************************************)
\* the ids of the teams of one conference of the field
ConferenceIds(field, conference) == {t.team_id : t \in Range(field[conference])}

\* the sum of the odds of the entries of an odds list whose team is in ids, as
\* a number of n-ths (every odds denominator divides n)
OddsTotal(odds_list, ids, n) ==
    SumSeq([i \in DOMAIN odds_list |->
              IF odds_list[i].team_id \in ids
              THEN odds_list[i].odds[1] * (n \div odds_list[i].odds[2])
              ELSE 0])

RatingTotal(ratings, ids) == SumSet(ids, [id \in ids |-> RatingGet(ratings, id)])

\* C1: two calls of run_monte_carlo made one after the other on the same
\* field, baseline, parameters and seed, with the same simulation count,
\* return the same championship odds, conference odds and finals matchups.
C1_Deterministic ==
    \A i \in DOMAIN outs : \A j \in DOMAIN outs :
        n_simulations[i] = n_simulations[j] => outs[i] = outs[j]

C1_Witness ==
    /\ Len(outs) = 2
    /\ n_simulations[1] = n_simulations[2]
    /\ n_simulations[1] >= 2
    /\ outs[1].status = "ok"
    /\ Len(outs[1].championship_odds) >= 2
    /\ Len(outs[2].finals_top_10) >= 2

\* C2: while a trial runs, every team that has not yet played in this trial
\* has exactly the entry (or the absence of an entry) it has in the caller's
\* baseline; in particular every trial begins with a map equal to the baseline.
C2_TrialStartsFromBaseline ==
    pc = "series" =>
        /\ \A id \in (FieldIds(playoff_field) \cup DOMAIN base0 \cup DOMAIN Ratings) \ played :
              /\ id \in DOMAIN Ratings <=> id \in DOMAIN base0
              /\ RatingGet(Ratings, id) = RatingGet(base0, id)
        /\ played = {} => Ratings = base0

\* a second trial is about to play its first game, after a first trial whose
\* games moved the ratings
C2_Witness ==
    /\ pc = "series"
    /\ trial = 1
    /\ series_no = 1
    /\ slot = 0
    /\ played = {}
    /\ last_game.n > 0
    /\ last_game.new_home # last_game.home_elo
    /\ Ratings = base0

\* C3: the caller's baseline map (its keys and its values) and the playoff
\* field are at every moment what they were when the caller built them.
C3_InputsUnchanged ==
    /\ base_ratings = base0
    /\ playoff_field = field0

\* a call of two trials has returned; the baseline lacked some teams, which the
\* trial's own map has gained
C3_Witness ==
    /\ pc = "returned"
    /\ trial >= 2
    /\ DOMAIN base0 # FieldIds(field0)
    /\ DOMAIN sim_ratings = FieldIds(field0)
    /\ base_ratings = base0

\* C4: in each conference the counts of the conference champions are counts of
\* teams of that conference and add up to the number of trials done, and in
\* every returned result the conference odds over that conference's teams
\* add up to 1.
C4_ConferenceMass ==
    /\ pc \in {"loop", "series", "returned"} =>
          \A c \in {"East", "West"} :
              /\ CounterTotal(conference_counts[c]) = trial
              /\ CounterKeys(conference_counts[c]) \subseteq ConferenceIds(playoff_field, c)
    /\ \A i \in DOMAIN outs :
          outs[i].status = "ok" =>
              \A c \in {"East", "West"} :
                  OddsTotal(outs[i].conference_odds[c],
                            ConferenceIds(playoff_field, c),
                            n_simulations[i]) = n_simulations[i]

\* a call of two trials returned two different East champions, at 1/2 each
C4_Witness ==
    /\ pc = "returned"
    /\ n_simulations[call] = 2
    /\ Len(outs[call].conference_odds["East"]) = 2
    /\ outs[call].conference_odds["East"][1].odds = << 1, 2 >>

\* C5: every game leaves the sum of the two ratings as it was (in exact
\* arithmetic), and at any point of a bracket run the ratings of the field's
\* teams, 1500 standing for a missing entry, add up to what they did in the
\* baseline.
C5_ZeroSum ==
    /\ last_game.n > 0 =>
          /\ last_game.new_home + last_game.new_away
                = last_game.home_elo + last_game.away_elo
          /\ last_game.new_home - last_game.home_elo
                = last_game.away_elo - last_game.new_away
    /\ pc = "series" =>
          RatingTotal(Ratings, FieldIds(playoff_field))
             = RatingTotal(base0, FieldIds(playoff_field))

\* the championship series is under way, ratings having moved
C5_Witness ==
    /\ pc = "series"
    /\ series_no = 15
    /\ slot >= 4
    /\ last_game.new_home # last_game.home_elo
    /\ DOMAIN base0 # FieldIds(field0)

\* C8: a call with n_simulations <= 0 ends at once by raising ValueError,
\* having drawn no random number, run no trial and returned no output; and
\* only such a call raises.
C8_NonPositiveCountRaises ==
    call >= 1 =>
        /\ n_simulations[call] <= 0 =>
              /\ pc = "raised"
              /\ draws = 0
              /\ Len(outs) = call
              /\ outs[call].status = "ValueError"
              /\ outs[call].championship_odds = << >>
        /\ pc = "raised" => n_simulations[call] <= 0

\* a call with n_simulations = 0 has raised
C8_Witness ==
    /\ pc = "raised"
    /\ n_simulations[call] = 0
    /\ draws = 0

(***************************************************************************)
(* _simulate_series on its own, under every sequence of draws: one call,   *)
(* on a map as a trial holds it, the generator being left open.            *)
(***************************************************************************)
\* draws that between them make either side win any game: 0 is below every
\* probability, (RngModulus - 1) / RngModulus is below none
AnyDraws == {0, RngModulus \div 2, RngModulus - 1}

InitSeries ==
    /\ SeederIdle
    /\ RequestIdle
    /\ playoff_field = TestField
    /\ field0 = TestField
    /\ \E i \in 1..NumBases :
          /\ base_ratings = BaseRatings(i)
          /\ base0 = BaseRatings(i)
          /\ sim_ratings = BaseRatings(i)
    /\ \E p \in ParamChoices : k_factor = p[1] /\ home_court_adv = p[2]
    /\ \E s \in 1..NumPairs :
          /\ high_seed = BySeed(TestField["East"], s)
          /\ low_seed = BySeed(TestField["East"], 9 - s)
    /\ n_simulations = [i \in 1..NumCalls |-> 1]
    /\ seed = 0
    /\ call = 1
    /\ pc = "series"
    /\ outs = << >>
    /\ champ_counts = << >>
    /\ conference_counts = [East |-> << >>, West |-> << >>]
    /\ finals_counts = << >>
    /\ parent_rng = 0
    /\ trial = 0
    /\ sim_rng = 0
    /\ ratings_obj = "sim"
    /\ series_no = 1
    /\ winners = [i \in 1..15 |-> NoTeam]
    /\ high_wins = 0
    /\ low_wins = 0
    /\ slot = 0
    /\ series_ret = NoTeam
    /\ played = {}
    /\ draws = 0
    /\ last_game = NoGame
    /\ latest = << >>
    /\ series_start = StartRatings(<< high_seed, low_seed >>, sim_ratings)
    /\ first_trial = << >>
    /\ trial_log = [i \in 1..NumCalls |-> << >>]
    /\ losers = << >>

\* bracket.py:46-76 with any draw
PlayGameAnyDraw ==
    /\ \E u \in AnyDraws : Game(u)
    /\ UNCHANGED << call, pc, outs, champ_counts, conference_counts, finals_counts,
                    parent_rng, trial, sim_rng, ratings_obj, series_no, winners,
                    high_seed, low_seed, series_ret, series_start,
                    first_trial, trial_log, losers >>
    /\ args_unchanged

\* bracket.py:78: the series returns to whoever called it
SeriesReturn ==
    /\ pc = "series"
    /\ SeriesOver
    /\ series_ret' = SeriesWinner
    /\ pc' = "series_done"
    /\ UNCHANGED << base_ratings, call, outs, champ_counts, conference_counts,
                    finals_counts, parent_rng, trial, sim_rng, sim_ratings,
                    ratings_obj, series_no, winners, high_seed, low_seed,
                    high_wins, low_wins, slot, played, draws, last_game,
                    latest, series_start, first_trial, trial_log >>
    /\ losers' = Append(losers, SeriesLoser.team_id)
    /\ args_unchanged

NextSeries == PlayGameAnyDraw \/ SeriesReturn

SpecSeries == InitSeries /\ [][NextSeries]_vars

\* the interpreter runs the loop on: a step that can be taken is taken
SpecSeriesFair == SpecSeries /\ WF_vars(NextSeries)

\* C6: whatever the draws, a series plays at most 7 games, and the team it
\* returns has exactly 4 wins in it while the other team has at most 3.
C6_BestOfSeven ==
    /\ draws <= 7
    /\ high_wins + low_wins = draws
    /\ pc = "series_done" =>
          \/ series_ret = high_seed /\ high_wins = 4 /\ low_wins <= 3
          \/ series_ret = low_seed /\ low_wins = 4 /\ high_wins <= 3

\* a series went to seven games and the low seed won it
C6_Witness ==
    /\ pc = "series_done"
    /\ draws = 7
    /\ series_ret = low_seed
    /\ low_wins = 4
    /\ high_wins = 3

\* C7: no game is played (no draw taken, no rating written, no win counted)
\* from a state in which a side has 4 wins, and every series returns.
C7_StopsAtFourWins ==
    /\ [][(draws' # draws \/ sim_ratings' # sim_ratings \/ slot' # slot
             \/ high_wins' # high_wins \/ low_wins' # low_wins)
          => (high_wins < 4 /\ low_wins < 4)]_vars
    /\ <>(pc = "series_done")

\* a sweep: the series returned after four games, three schedule slots unused
C7_Witness ==
    /\ pc = "series_done"
    /\ slot = 4
    /\ low_wins = 4
    /\ draws = 4

(***************************************************************************)
(* bracket.py: build_playoff_field                                         *)
(***************************************************************************)
\* str.isspace for the ASCII characters
IsSpace(c) == c \in {9, 10, 11, 12, 13, 28, 29, 30, 31, 32}

IsUpper(c) == c \in 65..90

IsLower(c) == c \in 97..122

ToUpper(c) == IF IsLower(c) THEN c - 32 ELSE c

ToLower(c) == IF IsUpper(c) THEN c + 32 ELSE c

RECURSIVE LStrip(_)
LStrip(s) == IF s # << >> /\ IsSpace(Head(s)) THEN LStrip(Tail(s)) ELSE s

RECURSIVE RStrip(_)
RStrip(s) ==
    IF s # << >> /\ IsSpace(s[Len(s)]) THEN RStrip(SubSeq(s, 1, Len(s) - 1)) ELSE s

\* str.strip()
Strip(s) == RStrip(LStrip(s))

RECURSIVE TitleFrom(_, _)
\* str.title(): a letter that follows a letter is made lower case, any other
\* letter upper case
TitleFrom(s, prev_cased) ==
    IF s = << >> THEN << >>
    ELSE LET c == Head(s)
         IN  IF IsLower(c)
             THEN << IF prev_cased THEN c ELSE ToUpper(c) >> \o TitleFrom(Tail(s), TRUE)
             ELSE IF IsUpper(c)
             THEN << IF prev_cased THEN ToLower(c) ELSE c >> \o TitleFrom(Tail(s), TRUE)
             ELSE << c >> \o TitleFrom(Tail(s), FALSE)

Title(s) == TitleFrom(s, FALSE)

\* bracket.py:13: row.conference.strip().title()
NormaliseConference(raw) == Title(Strip(raw))

\* bracket.py:12-15: conference_groups[conference], the rows in input order
ConferenceGroup(rows, conference) ==
    SelectSeq(rows, LAMBDA row : NormaliseConference(row.conference) = ConfChars(conference))

\* models.py:16-19: win_pct as the fraction << numerator, denominator >>,
\* 0.0 when no game was played.  Two such quotients of small integers are
\* equal as doubles exactly when they are equal as fractions.
win_pct(row) ==
    IF row.wins + row.losses # 0 THEN << row.wins, row.wins + row.losses >> ELSE << 0, 1 >>

RECURSIVE LexLess(_, _)
\* s < t for two strings
LexLess(s, t) ==
    IF t = << >> THEN FALSE
    ELSE IF s = << >> THEN TRUE
    ELSE IF Head(s) # Head(t) THEN Head(s) < Head(t)
    ELSE LexLess(Tail(s), Tail(t))

\* mutant of KeyLess: win_pct and wins without their minus signs
KeyLessAscending(a, b) ==
    LET pa == win_pct(a)
        pb == win_pct(b)
    IN  IF pa[1] * pb[2] # pb[1] * pa[2] THEN pa[1] * pb[2] < pb[1] * pa[2]
        ELSE IF a.wins # b.wins THEN a.wins < b.wins
        ELSE IF a.losses # b.losses THEN a.losses < b.losses
        ELSE LexLess(a.team_name, b.team_name)

\* bracket.py:21: key(a) < key(b) for key = (-win_pct, -wins, losses, team_name)
KeyLess(a, b) ==
    LET pa == win_pct(a)
        pb == win_pct(b)
    IN  IF pa[1] * pb[2] # pb[1] * pa[2] THEN pa[1] * pb[2] > pb[1] * pa[2]
        ELSE IF a.wins # b.wins THEN a.wins > b.wins
        ELSE IF a.losses # b.losses THEN a.losses < b.losses
        ELSE LexLess(a.team_name, b.team_name)

RECURSIVE InsertByKey(_, _)
\* x put into the sorted s behind every row whose key is not greater than x's
InsertByKey(s, x) ==
    IF s = << >> THEN << x >>
    ELSE IF KeyLess(x, Head(s)) THEN << x >> \o s
    ELSE << Head(s) >> \o InsertByKey(Tail(s), x)

RECURSIVE SortedByKey(_)
\* bracket.py:19-22: sorted(rows, key=...), a stable sort
SortedByKey(rows) ==
    IF rows = << >> THEN << >>
    ELSE InsertByKey(SortedByKey(SubSeq(rows, 1, Len(rows) - 1)), rows[Len(rows)])

\* bracket.py:22: [:8]
FieldSize == 8

\* mutant of SeedConference: the seed is the index i of enumerate, not i + 1
SeedConferenceFromZero(rows, conference) ==
    LET top == SubSeq(SortedByKey(rows), 1, Min(FieldSize, Len(rows)))
    IN  [j \in DOMAIN top |->
            [team_id |-> top[j].team_id, team_name |-> top[j].team_name,
             conference |-> conference, seed |-> j - 1]]

\* bracket.py:19-26: the best 8 rows of a conference as SeededTeams, the row
\* at index i of enumerate (the j-th row, j = i + 1) getting seed i + 1
SeedConference(rows, conference) ==
    LET top == SubSeq(SortedByKey(rows), 1, Min(FieldSize, Len(rows)))
    IN  [j \in DOMAIN top |->
            [team_id |-> top[j].team_id, team_name |-> top[j].team_name,
             conference |-> conference, seed |-> j]]

\* bracket.py:11-26: the field before the check of its size
SeededField(rows) ==
    [East |-> SeedConference(ConferenceGroup(rows, "East"), "East"),
     West |-> SeedConference(ConferenceGroup(rows, "West"), "West")]

\* mutant of FieldTooSmall: `and` for `or`
FieldTooSmallBoth(field) ==
    Len(field["East"]) < FieldSize /\ Len(field["West"]) < FieldSize

\* bracket.py:28
FieldTooSmall(field) ==
    Len(field["East"]) < FieldSize \/ Len(field["West"]) < FieldSize

(***************************************************************************)
(* The standings build_playoff_field is called on.                         *)
(***************************************************************************)
\* (wins, losses) of the j-th team of a conference under pattern p:
\*   1  every team has its own win percentage
\*   2  equal percentages with different totals, and teams without a win
\*   3, 4  every team has the same record
TiedRecords ==
    << << 40, 20 >>, << 20, 10 >>, << 30, 30 >>, << 10, 10 >>, << 0, 0 >>,
       << 0, 5 >>, << 0, 2 >>, << 20, 40 >>, << 10, 20 >>, << 41, 20 >>,
       << 5, 50 >>, << 1, 1 >> >>

TeamRecord(p, j) ==
    IF p = 1 THEN << 60 - 4 * j, 22 + 4 * j >>
    ELSE IF p = 2 THEN TiedRecords[((j - 1) % Len(TiedRecords)) + 1]
    ELSE << 41, 41 >>

\* the name of the j-th team of a conference: two letters, in patterns 1 and
\* 2 rising with j, in pattern 3 falling with j, in pattern 4 shared by the
\* teams 2m - 1 and 2m
TeamNameOf(conference, p, j) ==
    << Head(ConfChars(conference)),
       IF p = 3 THEN 90 - j ELSE IF p = 4 THEN 65 + (j \div 2) ELSE 64 + j >>

\* the conference label of the j-th row under spelling v:
\*   1  "East" / "West"
\*   2  other cases and blanks around it: " east", "EAST ", "East", "eAsT\n"
\*   3  as 1, but row 2 is "Eastern" / "Western" and row 5 is ""
ConferenceLabel(conference, v, j) ==
    LET canon == ConfChars(conference)
        lower == [i \in DOMAIN canon |-> ToLower(canon[i])]
        upper == [i \in DOMAIN canon |-> ToUpper(canon[i])]
        mixed == [i \in DOMAIN canon |-> IF i % 2 = 1 THEN lower[i] ELSE upper[i]]
    IN  IF v = 2
        THEN IF j % 4 = 0 THEN << 32 >> \o lower
             ELSE IF j % 4 = 1 THEN upper \o << 32 >>
             ELSE IF j % 4 = 2 THEN canon
             ELSE mixed \o << 10 >>
        ELSE IF v = 3 /\ j = 2 THEN canon \o << 101, 114, 110 >>
        ELSE IF v = 3 /\ j = 5 THEN << >>
        ELSE canon

StandingRow(conference, p, v, j) ==
    [season     |-> 2024,
     team_id    |-> (IF conference = "East" THEN 100 ELSE 200) + j,
     team_name  |-> TeamNameOf(conference, p, j),
     conference |-> ConferenceLabel(conference, v, j),
     wins       |-> TeamRecord(p, j)[1],
     losses     |-> TeamRecord(p, j)[2]]

Reverse(s) == [i \in DOMAIN s |-> s[Len(s) + 1 - i]]

\* the rows of the two conferences in order o: 1 East then West, 2 that
\* list reversed, 3 West then East
Ordered(east, west, o) ==
    IF o = 1 THEN east \o west
    ELSE IF o = 2 THEN Reverse(east \o west)
    ELSE west \o east

\* d = 1 repeats the list's first row at its end; d = 2 lists the first East
\* team a second time, as a team of the West
WithRepeat(rows, east, d) ==
    IF d = 1 /\ rows # << >> THEN Append(rows, rows[1])
    ELSE IF d = 2 /\ east # << >>
         THEN Append(rows, [east[1] EXCEPT !.conference = ConfChars("West")])
    ELSE rows

StandingsInput(n_east, n_west, p, v, o, d) ==
    LET east == [j \in 1..n_east |-> StandingRow("East", p, v, j)]
        west == [j \in 1..n_west |-> StandingRow("West", p, v, j)]
    IN  WithRepeat(Ordered(east, west, o), east, d)

\* run_monte_carlo is not part of this run
MonteCarloIdle ==
    /\ playoff_field = TestField
    /\ field0 = TestField
    /\ base_ratings = << >>
    /\ base0 = << >>
    /\ n_simulations = [i \in 1..NumCalls |-> 1]
    /\ k_factor = 20
    /\ home_court_adv = 65000
    /\ seed = 0
    /\ call = 0
    /\ pc = "idle"
    /\ outs = << >>
    /\ champ_counts = << >>
    /\ conference_counts = [East |-> << >>, West |-> << >>]
    /\ finals_counts = << >>
    /\ parent_rng = 0
    /\ trial = 0
    /\ sim_rng = 0
    /\ sim_ratings = << >>
    /\ ratings_obj = "sim"
    /\ series_no = 0
    /\ winners = [i \in 1..15 |-> NoTeam]
    /\ high_seed = NoTeam
    /\ low_seed = NoTeam
    /\ high_wins = 0
    /\ low_wins = 0
    /\ slot = 0
    /\ series_ret = NoTeam
    /\ played = {}
    /\ draws = 0
    /\ last_game = NoGame
    /\ NoHistory

InitField ==
    /\ MonteCarloIdle
    /\ RequestIdle
    /\ \E n_east \in (FieldSize - Slack)..(FieldSize + Slack) :
       \E n_west \in (FieldSize - Slack)..(FieldSize + Slack) :
       \E p \in 1..4 : \E v \in 1..3 : \E o \in 1..3 : \E d \in 0..2 :
          standings = StandingsInput(n_east, n_west, p, v, o, d)
    /\ build_pc = "input"
    /\ built_field = [East |-> << >>, West |-> << >>]

\* bracket.py:10-31, the call returning the field
BuildPlayoffFieldReturn ==
    /\ build_pc = "input"
    /\ ~FieldTooSmall(SeededField(standings))
    /\ built_field' = SeededField(standings)
    /\ build_pc' = "returned"
    /\ UNCHANGED << standings, mc_vars, request_vars >>

\* bracket.py:10-29, the call raising ValueError
BuildPlayoffFieldRaise ==
    /\ build_pc = "input"
    /\ FieldTooSmall(SeededField(standings))
    /\ build_pc' = "raised"
    /\ UNCHANGED << standings, built_field, mc_vars, request_vars >>

NextField == BuildPlayoffFieldReturn \/ BuildPlayoffFieldRaise

SpecField == InitField /\ [][NextField]_vars

(***************************************************************************)
(* Properties of build_playoff_field, checked under SpecField.             *)
(***************************************************************************)
\* the number of rows whose conference label, blanks around it and the case
\* of its letters aside, reads "east" (or "west")
Qualifying(rows, conference) ==
    Cardinality({i \in DOMAIN rows :
        LET label == Strip(rows[i].conference)
        IN  [k \in DOMAIN label |-> ToLower(label[k])]
              = [k \in DOMAIN ConfChars(conference) |-> ToLower(ConfChars(conference)[k])]})

NoTeamTwice(teams) ==
    \A i \in DOMAIN teams : \A j \in DOMAIN teams : i # j => teams[i].team_id # teams[j].team_id

\* C9: the call raises, and returns no field, when East or West is left with
\* fewer than 8 rows after the conference filter, and returns a field when
\* both are left with at least 8.
C9_NeedsEightPerConference ==
    build_pc # "input" =>
        /\ (Qualifying(standings, "East") < 8 \/ Qualifying(standings, "West") < 8)
              => (build_pc = "raised" /\ built_field = [East |-> << >>, West |-> << >>])
        /\ (Qualifying(standings, "East") >= 8 /\ Qualifying(standings, "West") >= 8)
              => (build_pc = "returned" /\ built_field = SeededField(standings))

\* East is left with 7 rows and West with at least 8: the call raised
C9_Witness ==
    /\ build_pc = "raised"
    /\ Qualifying(standings, "East") = 7
    /\ Qualifying(standings, "West") >= 8

\* C10 as claimed: every field returned holds, for East and for West, exactly
\* 8 teams seeded 1..8 in order, and no team twice, whatever the standings.
C10_AsClaimed ==
    build_pc = "returned" =>
        /\ \A c \in {"East", "West"} :
              /\ Len(built_field[c]) = 8
              /\ \A i \in 1..8 : built_field[c][i].seed = i
        /\ NoTeamTwice(built_field["East"] \o built_field["West"])

\* C10 as amended: every field returned holds, for East and for West, exactly
\* 8 teams of that conference seeded 1..8 in order, and when no team id is
\* listed twice in the standings no team is twice in the field.
C10_FieldShape ==
    build_pc = "returned" =>
        /\ \A c \in {"East", "West"} :
              /\ Len(built_field[c]) = 8
              /\ \A i \in 1..8 :
                    /\ built_field[c][i].seed = i
                    /\ built_field[c][i].conference = c
        /\ NoTeamTwice(standings)
              => NoTeamTwice(built_field["East"] \o built_field["West"])

\* a field was returned from standings of more than 8 rows a conference,
\* written in mixed case, no team listed twice
C10_Witness ==
    /\ build_pc = "returned"
    /\ NoTeamTwice(standings)
    /\ Len(standings) > 17
    /\ \E i \in DOMAIN standings : standings[i].conference # NormaliseConference(standings[i].conference)
    /\ built_field["East"][8].seed = 8

(***************************************************************************)
(* The seeding order, checked under SpecField.                             *)
(***************************************************************************)
\* the rows of the standings that belong to a conference, as a set
QualifyingRows(rows, conference) ==
    {rows[i] : i \in {k \in DOMAIN rows :
        LET label == Strip(rows[k].conference)
        IN  [m \in DOMAIN label |-> ToLower(label[m])]
              = [m \in DOMAIN ConfChars(conference) |->
                    ToLower(ConfChars(conference)[m])]}}

\* a's share of games won is greater than b's, a team without a game having
\* a share of 0
PctGreater(a, b) ==
    a.wins * Max(1, b.wins + b.losses) > b.wins * Max(1, a.wins + a.losses)

\* a comes before b in the order of the seeding: the greater win percentage,
\* then the more wins, then the fewer losses, then the name earlier in the
\* alphabet
Precedes(a, b) ==
    \/ PctGreater(a, b)
    \/ ~PctGreater(b, a) /\ a.wins > b.wins
    \/ ~PctGreater(b, a) /\ a.wins = b.wins /\ a.losses < b.losses
    \/ ~PctGreater(b, a) /\ a.wins = b.wins /\ a.losses = b.losses
          /\ LexLess(a.team_name, b.team_name)

\* the row of the standings a seeded team was made from
RowOf(group, team) ==
    CHOOSE r \in group : r.team_id = team.team_id /\ r.team_name = team.team_name

Seeded(teams, row) ==
    \E i \in DOMAIN teams :
        teams[i].team_id = row.team_id /\ teams[i].team_name = row.team_name

DistinctPcts(group) ==
    \A a \in group : \A b \in group : a # b => (PctGreater(a, b) \/ PctGreater(b, a))

\* C11: in the field returned, the seeds 1..8 of a conference are its first 8
\* rows by win percentage descending, then wins descending, then losses
\* ascending, then name ascending: every seeded team is a row of the
\* conference, no seed comes before a lower seed in that order, and every
\* row that comes before a seeded one is itself seeded.  With 10 teams of
\* distinct win percentages the seeds 1..8 fall strictly in win percentage
\* and the 2 rows left out have a lower percentage than seed 8.
C11_SeedingOrder ==
    build_pc = "returned" =>
        \A c \in {"East", "West"} :
            LET group == QualifyingRows(standings, c)
                f     == built_field[c]
            IN  /\ \A i \in DOMAIN f : f[i].seed = i /\ \E r \in group : Seeded(<< f[i] >>, r)
                /\ \A i \in DOMAIN f : \A j \in DOMAIN f :
                      i < j => ~Precedes(RowOf(group, f[j]), RowOf(group, f[i]))
                /\ \A r \in group :
                      (\E i \in DOMAIN f : Precedes(r, RowOf(group, f[i]))) => Seeded(f, r)
                /\ (Qualifying(standings, c) = 10 /\ Cardinality(group) = 10
                      /\ DistinctPcts(group)) =>
                      /\ \A i \in 1..7 :
                            PctGreater(RowOf(group, f[i]), RowOf(group, f[i + 1]))
                      /\ Cardinality({r \in group : ~Seeded(f, r)}) = 2
                      /\ \A r \in group :
                            ~Seeded(f, r) => PctGreater(RowOf(group, f[8]), r)

\* a field was returned from standings that list the 10 teams of the West,
\* each with its own win percentage, the worst of them first
C11_Witness ==
    /\ build_pc = "returned"
    /\ Qualifying(standings, "West") = 10
    /\ Cardinality(QualifyingRows(standings, "West")) = 10
    /\ DistinctPcts(QualifyingRows(standings, "West"))
    /\ \E r \in QualifyingRows(standings, "West") : PctGreater(r, standings[1])
    /\ standings[1] \in QualifyingRows(standings, "West")
    /\ ~Seeded(built_field["West"], standings[1])

\* the list with its rows i and i + 1 exchanged
SwapAt(rows, i) ==
    [k \in DOMAIN rows |->
        IF k = i THEN rows[i + 1] ELSE IF k = i + 1 THEN rows[i] ELSE rows[k]]

\* some other orders of the same rows: the list backwards, and the list with
\* two neighbours exchanged
Rearrangements(rows) ==
    {Reverse(rows)} \cup {SwapAt(rows, i) : i \in 1..(Len(rows) - 1)}

\* C12: the field build_playoff_field returns does not depend on the order of
\* the list it is given: handed the same rows in another order, it returns
\* the same field, also when teams tie on win percentage, wins, losses and name.
C12_OrderIndependent ==
    build_pc = "returned" =>
        \A other \in Rearrangements(standings) : SeededField(other) = built_field

\* a field was returned from standings in which two teams of a conference
\* hold the same record under the same name
C12_TiedOnEveryKey ==
    /\ build_pc = "returned"
    /\ NoTeamTwice(standings)
    /\ \E i \in DOMAIN standings : \E j \in DOMAIN standings :
          /\ i # j
          /\ NormaliseConference(standings[i].conference)
                = NormaliseConference(standings[j].conference)
          /\ ~Precedes(standings[i], standings[j])
          /\ ~Precedes(standings[j], standings[i])

(***************************************************************************)
(* The tallying of run_monte_carlo alone: the loop of simulation.py:36-50  *)
(* with what simulate_playoffs returns left open, so that more than 10     *)
(* different finals occur within one call.                                 *)
(***************************************************************************)
\* the most trials of a call, and the most of them that repeat a final
MaxTally == 12

MaxRepeats == 3

\* the counts of trials tried: few, and enough for more than 10 finals
TallySizes == 1..3 \cup {MaxTally - 1, MaxTally}

\* the m-th final of a fixed list of finals: East seed 1..8 against West
\* seed 1, then against West seed 2, and so on
MatchupPair(m) ==
    << BySeed(TestField["East"], ((m - 1) % 8) + 1),
       BySeed(TestField["West"], ((m - 1) \div 8) + 1) >>

InitTally ==
    /\ SeederIdle
    /\ RequestIdle
    /\ playoff_field = TestField
    /\ field0 = TestField
    /\ base_ratings = BaseRatings(1)
    /\ base0 = BaseRatings(1)
    /\ \E n \in TallySizes : n_simulations = [i \in 1..NumCalls |-> n]
    /\ k_factor = 20
    /\ home_court_adv = 65000
    /\ seed = 0
    /\ call = 1
    /\ pc = "loop"
    /\ outs = << >>
    /\ champ_counts = NewChampCounts
    /\ conference_counts = [East |-> << >>, West |-> << >>]
    /\ finals_counts = << >>
    /\ parent_rng = ParentRng(0, MaxTally)
    /\ trial = 0
    /\ sim_rng = 0
    /\ sim_ratings = << >>
    /\ ratings_obj = "sim"
    /\ series_no = 0
    /\ winners = [i \in 1..15 |-> NoTeam]
    /\ high_seed = NoTeam
    /\ low_seed = NoTeam
    /\ high_wins = 0
    /\ low_wins = 0
    /\ slot = 0
    /\ series_ret = NoTeam
    /\ played = {}
    /\ draws = 0
    /\ last_game = NoGame
    /\ NoHistory

\* simulation.py:36-50: one iteration of the loop, simulate_playoffs
\* returning the next final of the list or, in at most MaxRepeats trials of
\* a call, the first or the latest final that occurred; the final is won by
\* its East side when m is odd and by its West side when m is even
TallyOutcome ==
    /\ pc = "loop"
    /\ trial < n_simulations[call]
    /\ \E m \in {1, Max(1, Len(finals_counts)), Len(finals_counts) + 1} :
          LET east  == MatchupPair(m)[1]
              west  == MatchupPair(m)[2]
              tally == TrialTally(IF m % 2 = 1 THEN east ELSE west, east, west)
          IN  /\ champ_counts' = tally.champ_counts
              /\ conference_counts' = tally.conference_counts
              /\ finals_counts' = tally.finals_counts
              /\ first_trial' = FirstSeen(first_trial,
                                          MatchupText(east.team_name, west.team_name),
                                          trial + 1)
              /\ m <= Len(finals_counts) => trial - Len(finals_counts) < MaxRepeats
    /\ trial' = trial + 1
    /\ parent_rng' = RngNext(parent_rng)
    /\ UNCHANGED << base_ratings, call, pc, outs, draws, trial_log >>
    /\ series_unchanged
    /\ args_unchanged

NextTally == TallyOutcome \/ Return

SpecTally == InitTally /\ [][NextTally]_vars

\* the count a Counter holds for a key
CountOf(counter, key) ==
    SumSeq([i \in DOMAIN counter |-> IF counter[i].key = key THEN counter[i].count ELSE 0])

\* the finals a top-10 list names
Listed(top) == {top[i].matchup : i \in DOMAIN top}

\* C13: the finals list a call returns holds min(10, number of different
\* finals that occurred) entries, each a final that occurred, with its share
\* of the trials; the counts do not rise along the list; no final left out
\* occurred more often than a listed one; and of two finals with equal
\* counts the one that first occurred in the earlier trial is listed first,
\* and is the one listed when only one of them is.
C13_TopTenFinals ==
    (pc = "returned" /\ outs # << >> /\ outs[Len(outs)].status = "ok") =>
        LET top      == outs[Len(outs)].finals_top_10
            occurred == DOMAIN first_trial
            n        == n_simulations[call]
            cnt(k)   == CountOf(finals_counts, k)
        IN  /\ Len(top) = Min(10, Cardinality(occurred))
            /\ Cardinality(Listed(top)) = Len(top)
            /\ \A i \in DOMAIN top :
                  /\ top[i].matchup \in occurred
                  /\ top[i].odds = Odds(cnt(top[i].matchup), n)
            /\ \A i \in DOMAIN top : \A j \in DOMAIN top :
                  i < j =>
                     /\ cnt(top[i].matchup) >= cnt(top[j].matchup)
                     /\ cnt(top[i].matchup) = cnt(top[j].matchup)
                           => first_trial[top[i].matchup] < first_trial[top[j].matchup]
            /\ \A k \in occurred \ Listed(top) : \A i \in DOMAIN top :
                  /\ cnt(k) <= cnt(top[i].matchup)
                  /\ cnt(k) = cnt(top[i].matchup)
                        => first_trial[top[i].matchup] < first_trial[k]

\* a call returned after more than 10 different finals had occurred, one of
\* those left out having occurred as often as a listed one, and the list is
\* not in the order of first occurrence
C13_Witness ==
    /\ pc = "returned"
    /\ outs # << >>
    /\ Cardinality(DOMAIN first_trial) > 10
    /\ LET top == outs[Len(outs)].finals_top_10
       IN  /\ \E k \in DOMAIN first_trial \ Listed(top) : \E i \in DOMAIN top :
                 CountOf(finals_counts, k) = CountOf(finals_counts, top[i].matchup)
           /\ \E i \in DOMAIN top : \E j \in DOMAIN top :
                 i < j /\ first_trial[top[i].matchup] > first_trial[top[j].matchup]

(***************************************************************************)
(* Properties of the games of a bracket run, checked under Spec.           *)
(***************************************************************************)
\* the last game simulated is a game of the trial now in hand
GameOfThisTrial == last_game.n > 0 /\ last_game.home.team_id \in played

\* C14: a team without an entry in the rating map is no error: a call with
\* a count above 0 never raises; a team that enters a game without an entry
\* is rated 1500.0 in it; and once a team has played in a trial the trial's
\* own map, and not the caller's, holds the rating its game produced.
C14_MissingRatingDefaults ==
    /\ pc = "raised" => n_simulations[call] <= 0
    /\ GameOfThisTrial =>
          /\ ~last_game.home_had => last_game.home_elo = 1500000
          /\ ~last_game.away_had => last_game.away_elo = 1500000
          /\ \A id \in played : id \in DOMAIN sim_ratings
          /\ sim_ratings[last_game.home.team_id] = last_game.new_home
          /\ sim_ratings[last_game.away.team_id] = last_game.new_away
          /\ \A id \in played : id \notin DOMAIN base0 => id \notin DOMAIN base_ratings

\* a team the caller's map does not rate has played its first game of a
\* trial at 1500.0 against a rated team, and the trial's map now holds its
\* new rating
C14_Witness ==
    /\ GameOfThisTrial
    /\ ~last_game.away_had
    /\ last_game.home_had
    /\ last_game.away_elo = 1500000
    /\ last_game.away.team_id \notin DOMAIN base_ratings
    /\ sim_ratings[last_game.away.team_id] = last_game.new_away
    /\ last_game.new_away # 1500000

\* the team of a conference that holds seed s in the field
TeamOfSeed(c, s) == CHOOSE t \in Range(field0[c]) : t.seed = s

\* the two teams that series k of a trial is played between, k = 1..7 being
\* the East's quarterfinals, semifinals and final, and 8..14 the West's
Entrants(k) ==
    LET c     == IF k <= 7 THEN "East" ELSE "West"
        first == IF k <= 7 THEN 0 ELSE 7
        round == k - first
    IN  IF round = 1 THEN {TeamOfSeed(c, 1), TeamOfSeed(c, 8)}
        ELSE IF round = 2 THEN {TeamOfSeed(c, 4), TeamOfSeed(c, 5)}
        ELSE IF round = 3 THEN {TeamOfSeed(c, 2), TeamOfSeed(c, 7)}
        ELSE IF round = 4 THEN {TeamOfSeed(c, 3), TeamOfSeed(c, 6)}
        ELSE IF round = 5 THEN {winners[first + 1], winners[first + 2]}
        ELSE IF round = 6 THEN {winners[first + 3], winners[first + 4]}
        ELSE {winners[first + 5], winners[first + 6]}

\* C15: in every bracket run and each conference the quarterfinals are seed
\* 1 against 8, 4 against 5, 2 against 7 and 3 against 6, in that order; the
\* semifinals are the winner of 1v8 against the winner of 4v5 and the winner
\* of 2v7 against the winner of 3v6; the conference's champion, as the run
\* returns it, is the winner of the series between the semifinals' winners.
C15_BracketTopology ==
    /\ (pc = "series" /\ series_no \in 1..14) =>
          /\ {high_seed, low_seed} = Entrants(series_no)
          /\ high_seed # low_seed
    /\ \A k \in 1..14 : winners[k] # NoTeam => winners[k] \in Entrants(k)
    /\ (pc = "loop" /\ trial > 0) =>
          /\ winners[7] # NoTeam /\ winners[14] # NoTeam
          /\ trial_log[call][trial].east_champ = winners[7].team_id
          /\ trial_log[call][trial].west_champ = winners[14].team_id

\* a trial is over in which a quarterfinal of the East went to its lower
\* seed, who lost the semifinal to the winner of 4 against 5
C15_Witness ==
    /\ pc = "loop"
    /\ trial > 0
    /\ winners[1] = TeamOfSeed("East", 8)
    /\ winners[5] = winners[2]
    /\ winners[7] \in {winners[5], winners[6]}

\* the series in which two series winners meet within a conference
ConferenceLaterRounds == {5, 6, 7, 12, 13, 14}

\* the role went to the lower numeric seed, or with equal seeds to the team
\* whose rating was not the lower one when the series began
RoleBySeedThenRating ==
    \/ high_seed.seed < low_seed.seed
    \/ high_seed.seed = low_seed.seed /\ series_start.high >= series_start.low

\* C16 as claimed: at the conference semifinals, the conference final and
\* the championship alike the higher-seed role goes to the lower numeric
\* seed, and to the higher current rating only when the seeds are equal.
C16_AsClaimed ==
    (pc = "series" /\ series_no \in ConferenceLaterRounds \cup {15}) => RoleBySeedThenRating

\* C16 as amended: at the conference semifinals and the conference final
\* the higher-seed role goes to the lower numeric seed, and to the higher
\* current rating only when the seeds are equal; at the championship it
\* goes to the conference champion whose current rating is not the lower
\* one, whatever the two seeds.
C16_RolesBySeedWithinConference ==
    /\ (pc = "series" /\ series_no \in ConferenceLaterRounds) => RoleBySeedThenRating
    /\ (pc = "series" /\ series_no = 15) => series_start.high >= series_start.low

\* a conference semifinal or final is on in which the lower numeric seed
\* holds the role although its rating is the lower one
C16_Witness ==
    /\ pc = "series"
    /\ series_no \in ConferenceLaterRounds
    /\ high_seed.seed < low_seed.seed
    /\ series_start.high < series_start.low

\* C17: in the championship the higher-seed role is resolved by current
\* rating: the series is between the two conference champions, the role is
\* held by the one whose rating after all the conference rounds' games is
\* not the lower one, and that team is at home in games 1, 2, 5 and 7.
C17_ChampionshipByRating ==
    (pc = "series" /\ series_no = 15) =>
        /\ {high_seed, low_seed} = {winners[7], winners[14]}
        /\ series_start.high >= series_start.low
        /\ slot = 0 =>
              /\ series_start.high = latest[high_seed.team_id]
              /\ series_start.low = latest[low_seed.team_id]
        /\ (last_game.series = 15 /\ slot > 0 /\ last_game.n \in {1, 2, 5, 7}) =>
              /\ last_game.home = high_seed
              /\ last_game.away = low_seed

\* game 5 of a championship was played at the home of the West's champion,
\* whose rating was the higher one and whose numeric seed is the higher one
C17_Witness ==
    /\ pc = "series"
    /\ series_no = 15
    /\ last_game.series = 15
    /\ last_game.n = 5
    /\ slot = 5
    /\ last_game.home = winners[14]
    /\ high_seed = winners[14]
    /\ series_start.high > series_start.low
    /\ high_seed.seed > low_seed.seed

(***************************************************************************)
(* The venue of each game of a series, checked under SpecSeries.           *)
(***************************************************************************)
\* C18: the n-th game played of a series is the n-th entry of the schedule,
\* n being at most 7, and it is at the home of the team in the higher-seed
\* role when n is 1, 2, 5 or 7 and at the home of the team in the
\* lower-seed role when n is 3, 4 or 6.
C18_HomeSchedule ==
    last_game.n > 0 =>
        /\ last_game.n = draws
        /\ last_game.n \in 1..7
        /\ last_game.high = high_seed
        /\ last_game.low = low_seed
        /\ last_game.n \in {1, 2, 5, 7} =>
              last_game.home = high_seed /\ last_game.away = low_seed
        /\ last_game.n \in {3, 4, 6} =>
              last_game.home = low_seed /\ last_game.away = high_seed

\* the sixth game of a series was played, at the home of the lower-seed
\* role, and left the series at three wins each
C18_Witness ==
    /\ last_game.n = 6
    /\ draws = 6
    /\ last_game.home = low_seed
    /\ last_game.home # high_seed
    /\ high_wins = 3
    /\ low_wins = 3

(***************************************************************************)
(* The rating state of a bracket run, checked under Spec.                  *)
(***************************************************************************)
\* C19: all the games of one bracket run share one rating state: the
\* ratings a game's home win probability is computed from are, for each of
\* its two teams, the rating that team's latest earlier game of the run
\* produced, or the rating the trial began with when it has not played; and
\* the run's map holds, for every team that has played, the rating its
\* latest game produced.
C19_SharedRatingState ==
    GameOfThisTrial =>
        /\ last_game.home_elo = last_game.home_prev
        /\ last_game.away_elo = last_game.away_prev
        /\ last_game.home_prob =
              expected_home_win_prob(last_game.home_prev, last_game.away_prev,
                                     home_court_adv)
        /\ DOMAIN latest = played
        /\ \A id \in played : sim_ratings[id] = latest[id]
        /\ \A id \in DOMAIN sim_ratings \ played : sim_ratings[id] = base0[id]

\* a game of the championship was played by two teams whose ratings had
\* both moved, in earlier series of the run, away from what the trial began
\* with
C19_Witness ==
    /\ GameOfThisTrial
    /\ last_game.series = 15
    /\ last_game.n = 1
    /\ last_game.home_elo # RatingGet(base0, last_game.home.team_id)
    /\ last_game.away_elo # RatingGet(base0, last_game.away.team_id)
    /\ last_game.home_elo = last_game.home_prev

(***************************************************************************)
(* The random streams of the trials, checked under Spec.                   *)
(***************************************************************************)
RECURSIVE RngAfter(_, _)
\* the generator state s after k numbers were drawn from it
RngAfter(s, k) == IF k = 0 THEN s ELSE RngAfter(RngNext(s), k - 1)

\* the trials of the current call that have drawn their seed
TrialsBegun == IF pc = "series" THEN trial + 1 ELSE trial

\* C20: the stream of the i-th trial comes from a parent generator seeded
\* once with the top-level seed, one number drawn per trial, so that it
\* depends on that seed and on i alone, not on the count of simulations nor
\* on how other trials went: the parent generator's state is that of the
\* seed after one draw for every trial begun, and two calls with the same
\* seed and inputs but different counts return the same (champion, East
\* champion, West champion) on every trial that both of them run.
C20_StreamsBySeedAndIndex ==
    /\ pc \in {"loop", "series", "returned"} =>
          parent_rng = RngAfter(RngSeed(seed), TrialsBegun)
    /\ \A i \in 1..NumCalls : \A j \in 1..NumCalls :
          \A t \in 1..Min(Len(trial_log[i]), Len(trial_log[j])) :
              trial_log[i][t] = trial_log[j][t]

\* a call of N trials and then a call of M > N trials have both returned,
\* the longer one's later trial having gone another way than its first
C20_Witness ==
    /\ call = 2
    /\ pc = "returned"
    /\ n_simulations[1] >= 1
    /\ n_simulations[1] < n_simulations[2]
    /\ Len(trial_log[1]) = n_simulations[1]
    /\ Len(trial_log[2]) = n_simulations[2]
    /\ trial_log[2][1] # trial_log[2][n_simulations[2]]

(***************************************************************************)
(* Elimination and the champions, checked under Spec.                      *)
(***************************************************************************)
\* the ids of the 16 teams of the field
AllTeamIds == {t.team_id : t \in Range(field0["East"] \o field0["West"])}

\* a trial of the current call is over and no later one has begun
TrialOver == pc \in {"loop", "returned"} /\ trial > 0

\* C21: in a bracket run over a valid field a team that lost a series plays
\* in no later series of the run: the teams of every series have lost none
\* before it, and so has every team of a game; a series is lost by one of
\* its two teams; no team loses twice; the run is over after exactly 15
\* series, and then exactly one team has lost none: the champion.
C21_OneLossEliminates ==
    /\ pc = "series" =>
          /\ series_no \in 1..15
          /\ Len(losers) = series_no - 1
          /\ high_seed.team_id # low_seed.team_id
          /\ {high_seed.team_id, low_seed.team_id} \cap Range(losers) = {}
          /\ (GameOfThisTrial /\ last_game.series = series_no) =>
                {last_game.home.team_id, last_game.away.team_id}
                   = {high_seed.team_id, low_seed.team_id}
    /\ \A i \in DOMAIN losers : \A j \in DOMAIN losers : i # j => losers[i] # losers[j]
    /\ Range(losers) \subseteq AllTeamIds
    /\ TrialOver =>
          /\ Len(losers) = 15
          /\ AllTeamIds \ Range(losers) = {trial_log[call][trial].champion}

\* a trial is over whose champion went through four series, the first of
\* them against a team that therefore played only one
C21_Witness ==
    /\ TrialOver
    /\ Len(losers) = 15
    /\ winners[15] = winners[7]
    /\ winners[7] = winners[5]
    /\ winners[5] = winners[2]
    /\ losers[2] \notin {winners[k].team_id : k \in 1..15}

\* how often a team was tallied as the champion of its conference
ConferenceTitles(id) ==
    CountOf(conference_counts["East"], id) + CountOf(conference_counts["West"], id)

\* C22: in every trial the champion returned is one of the trial's two
\* conference champions, the East's champion is a team of the East's field
\* and the West's a team of the West's; and after any number of trials of a
\* call no team's championship count is above its conference-champion
\* count, and the championship counts add up to the number of trials.
C22_ChampionIsConferenceChampion ==
    /\ \A c \in 1..NumCalls : \A t \in DOMAIN trial_log[c] :
          /\ trial_log[c][t].champion
                \in {trial_log[c][t].east_champ, trial_log[c][t].west_champ}
          /\ trial_log[c][t].east_champ \in ConferenceIds(field0, "East")
          /\ trial_log[c][t].west_champ \in ConferenceIds(field0, "West")
    /\ CounterTotal(champ_counts) = trial
    /\ CounterTotal(conference_counts["East"]) = trial
    /\ CounterTotal(conference_counts["West"]) = trial
    /\ \A id \in CounterKeys(champ_counts) :
          /\ 1 <= CountOf(champ_counts, id)
          /\ CountOf(champ_counts, id) <= ConferenceTitles(id)

\* two trials of a call are over, one won by the East's champion and one by
\* the West's, so that a conference champion has fewer championships than
\* conference titles
C22_Witness ==
    /\ TrialOver
    /\ trial = 2
    /\ trial_log[call][1].champion = trial_log[call][1].east_champ
    /\ trial_log[call][2].champion = trial_log[call][2].west_champ
    /\ \E id \in CounterKeys(conference_counts["East"]) :
          CountOf(champ_counts, id) < ConferenceTitles(id)

(***************************************************************************)
(* api.py: BallDontLieClient._request.  Times are whole seconds, a header  *)
(* value is the sequence of its characters' code points (headers reach     *)
(* the code decoded as Latin-1), and every session.get takes one second.   *)
(***************************************************************************)
\* the largest max_retries a client is built with
MaxRetriesArg == 3

\* str.isdigit() of a Latin-1 character: 0..9 and the superscripts 1, 2, 3
IsDigitChar(c) == c \in 48..57 \/ c \in {178, 179, 185}

\* api.py:59: retry_after_raw.isdigit()
IsDigit(raw) == raw # << >> /\ \A i \in DOMAIN raw : IsDigitChar(raw[i])

\* float(raw) returns, for a raw that isdigit() accepts: float() takes the
\* decimal digits and raises ValueError on a superscript
FloatParses(raw) == \A i \in DOMAIN raw : raw[i] \in 48..57

RECURSIVE FloatOf(_)
\* float(raw) of a string of decimal digits
FloatOf(raw) ==
    IF raw = << >> THEN 0
    ELSE 10 * FloatOf(SubSeq(raw, 1, Len(raw) - 1)) + (raw[Len(raw)] - 48)

\* api.py:58-60: the seconds slept after a 429 on attempt a
SleepAfter429(raw, a) == Max(IF IsDigit(raw) THEN FloatOf(raw) ELSE 15, 5 * a)

\* the Retry-After values tried: none, "30", "2", "soon" and the superscript 2
RetryAfterValues == { << >>, << 51, 48 >>, << 50 >>, << 115, 111, 111, 110 >>, << 178 >> }

\* the statuses raise_for_status raises on that are tried
ErrorStatuses == {429, 404, 500}

\* api.py:46-48: the time at which session.get is called
SendTime ==
    IF now - last_request_ts < min_request_interval_seconds
    THEN last_request_ts + min_request_interval_seconds
    ELSE now

\* api.py:14-26 and 43-45: a client is built and _request is called on it
InitRequest ==
    /\ MonteCarloIdle
    /\ SeederIdle
    /\ \E arg \in (-1)..MaxRetriesArg : max_retries = Max(1, arg)
    /\ \E arg \in {-1, 0, 3} : min_request_interval_seconds = Max(0, arg)
    /\ last_request_ts = 0
    /\ now \in {1, 10}
    /\ attempt = 1
    /\ req_pc = "loop"
    /\ req_raised = ""
    /\ req_log = << >>

request_unchanged ==
    UNCHANGED << max_retries, min_request_interval_seconds, mc_vars, seeder_vars >>

\* api.py:51-54: the response is a success and its JSON is returned
RequestReturn ==
    /\ req_pc = "loop"
    /\ attempt <= max_retries
    /\ req_log' = Append(req_log, [attempt |-> attempt, met |-> "ok", status |-> 200])
    /\ last_request_ts' = SendTime + 1
    /\ now' = SendTime + 1
    /\ req_pc' = "returned"
    /\ UNCHANGED << attempt, req_raised >>
    /\ request_unchanged

\* api.py:55-68: a 429 with attempts left: sleep and go round again, unless
\* float() raises on the Retry-After header
RequestRetry429 ==
    /\ req_pc = "loop"
    /\ attempt < max_retries
    /\ \E raw \in RetryAfterValues :
          /\ req_log' = Append(req_log, [attempt |-> attempt, met |-> "http", status |-> 429])
          /\ last_request_ts' = SendTime + 1
          /\ IF IsDigit(raw) /\ ~FloatParses(raw)
             THEN /\ req_pc' = "raised"
                  /\ req_raised' = "ValueError"
                  /\ now' = SendTime + 1
                  /\ attempt' = attempt
             ELSE /\ req_pc' = "loop"
                  /\ req_raised' = req_raised
                  /\ now' = SendTime + 1 + SleepAfter429(raw, attempt)
                  /\ attempt' = attempt + 1
    /\ request_unchanged

\* api.py:55-57 and 70-71: an HTTP error that is not retried: a status
\* other than 429, or a 429 on the last attempt
RequestRaiseHttp ==
    /\ req_pc = "loop"
    /\ attempt <= max_retries
    /\ \E status \in ErrorStatuses :
          /\ status = 429 => attempt >= max_retries
          /\ req_log' = Append(req_log, [attempt |-> attempt, met |-> "http", status |-> status])
    /\ last_request_ts' = SendTime + 1
    /\ now' = SendTime + 1
    /\ req_pc' = "raised"
    /\ req_raised' = "RuntimeError"
    /\ UNCHANGED attempt
    /\ request_unchanged

\* api.py:72-82: session.get raises a RequestException with attempts left
RequestRetryNetwork ==
    /\ req_pc = "loop"
    /\ attempt < max_retries
    /\ req_log' = Append(req_log, [attempt |-> attempt, met |-> "network", status |-> 0])
    /\ now' = SendTime + 1 + 2 * attempt
    /\ attempt' = attempt + 1
    /\ UNCHANGED << last_request_ts, req_pc, req_raised >>
    /\ request_unchanged

\* api.py:72-73 and 83: session.get raises a RequestException on the last attempt
RequestRaiseNetwork ==
    /\ req_pc = "loop"
    /\ attempt = max_retries
    /\ req_log' = Append(req_log, [attempt |-> attempt, met |-> "network", status |-> 0])
    /\ now' = SendTime + 1
    /\ req_pc' = "raised"
    /\ req_raised' = "RuntimeError"
    /\ UNCHANGED << last_request_ts, attempt >>
    /\ request_unchanged

NextRequest ==
    \/ RequestReturn
    \/ RequestRetry429
    \/ RequestRaiseHttp
    \/ RequestRetryNetwork
    \/ RequestRaiseNetwork

SpecRequest == InitRequest /\ [][NextRequest]_vars

\* C23: _request makes at most max_retries attempts, max_retries being at
\* least 1, and ends either by returning the response of a successful
\* attempt or by raising RuntimeError, never otherwise; an attempt is
\* followed by another only when it met a 429 or a network error and
\* attempts remained; an HTTP error of any other status is raised on the
\* attempt where it occurs.
C23_AsClaimed ==
    /\ max_retries >= 1
    /\ Len(req_log) <= max_retries
    /\ \A i \in DOMAIN req_log : req_log[i].attempt = i
    /\ req_pc \in {"loop", "returned", "raised"}
    /\ req_pc = "loop" => attempt <= max_retries
    /\ req_pc = "returned" => req_log[Len(req_log)].met = "ok"
    /\ req_pc = "raised" => req_raised = "RuntimeError"
    /\ \A i \in DOMAIN req_log :
          i < Len(req_log) =>
             /\ i < max_retries
             /\ \/ req_log[i].met = "network"
                \/ req_log[i].met = "http" /\ req_log[i].status = 429
    /\ \A i \in DOMAIN req_log :
          (req_log[i].met = "http" /\ req_log[i].status # 429) =>
             (i = Len(req_log) /\ req_pc = "raised")

\* a call met a 429 with attempts left and ended on that attempt with an
\* exception that is not RuntimeError
C23_Witness ==
    /\ req_pc = "raised"
    /\ req_raised = "ValueError"
    /\ Len(req_log) < max_retries
    /\ req_log[Len(req_log)].status = 429

=============================================================================
